---- MODULE Spec2Model ----
(***************************************************************************)
(* TerraScope land-health monitor: the classification, recommendation and  *)
(* score rules of app.py, dashboard.py and backend/, modelled per reading. *)
(*                                                                         *)
(* Fixed-point units.  vegetation_index is held in hundredths (0.3 is 30), *)
(* soil_moisture in percent, temperature in degrees Celsius.  The derived  *)
(* scores sustainability_index and carbon_estimate are held in thousandths *)
(* (12.5 is 12500).                                                        *)
(***************************************************************************)
EXTENDS Integers, FiniteSets, Sequences, TLC

VARIABLES program, obs, fn, out, prev, land_data,
          supabase, estimator, cache, event, last

\* The reading in hand, and the traffic with the store and the fetch cache.
reading == <<obs, fn, out, prev>>
service == <<supabase, estimator, cache, event, last>>

vars == <<program, obs, fn, out, prev, land_data,
          supabase, estimator, cache, event, last>>

(***************************************************************************)
(* Cell values of a land_data row as the dashboards receive them: a        *)
(* number, a JSON null in an object column (None), a null in a float       *)
(* column (NaN), or a non-numeric string.                                  *)
(***************************************************************************)
Num(x) == [kind |-> "num", val |-> x]
None == [kind |-> "none", val |-> 0]
NaN == [kind |-> "nan", val |-> 0]
Text == [kind |-> "str", val |-> 0]

IsNum(x) == x.kind = "num"

\* Largest number of rows the model lets land_data grow to.
MaxStore == 1

\* Readings explored: the cutoffs of the three rule tables and the ends of
\* the form ranges.
VegValues == {0, 30, 50, 60, 100}
SoilValues == {0, 20, 35, 50, 100}
TempValues == {10, 25, 35, 40}

Missing == {None, NaN, Text}

FormReadings ==
    [vegetation_index : {Num(v) : v \in VegValues},
     soil_moisture : {Num(s) : s \in SoilValues},
     temperature : {Num(t) : t \in TempValues}]

StoredRows ==
    [vegetation_index : {Num(v) : v \in VegValues} \cup Missing,
     soil_moisture : {Num(s) : s \in SoilValues} \cup Missing,
     temperature : {Num(t) : t \in TempValues} \cup Missing]

(***************************************************************************)
(* app.py                                                                  *)
(***************************************************************************)
\* Variants of classify_land and get_suggestion with one rule altered.
classify_land_at_risk_first(veg_index, soil_moisture, temp) ==
    IF veg_index < 50 \/ soil_moisture < 35 THEN "At Risk"
    ELSE IF veg_index < 30 \/ soil_moisture < 20 \/ temp > 35 THEN "Degraded"
    ELSE "Healthy"

classify_land_healthy_first(veg_index, soil_moisture, temp) ==
    IF veg_index >= 50 /\ soil_moisture >= 35 /\ temp <= 35 THEN "Healthy"
    ELSE IF (30 <= veg_index /\ veg_index < 50)
            \/ (20 <= soil_moisture /\ soil_moisture < 35) THEN "At Risk"
    ELSE "Degraded"

classify_land_soil_inclusive(veg_index, soil_moisture, temp) ==
    IF veg_index < 30 \/ soil_moisture <= 20 \/ temp > 35 THEN "Degraded"
    ELSE IF veg_index < 50 \/ soil_moisture < 35 THEN "At Risk"
    ELSE "Healthy"

classify_land_cutoffs_inclusive(veg_index, soil_moisture, temp) ==
    IF veg_index <= 30 \/ soil_moisture <= 20 \/ temp >= 35 THEN "Degraded"
    ELSE IF veg_index <= 50 \/ soil_moisture <= 35 THEN "At Risk"
    ELSE "Healthy"

get_suggestion_no_at_risk(status) ==
    IF status = "Degraded"
    THEN "Recommend: Reforestation or irrigation to restore soil health."
    ELSE "Land is healthy. Maintain current practices."

classify_land(veg_index, soil_moisture, temp) ==
    IF veg_index < 30 \/ soil_moisture < 20 \/ temp > 35 THEN "Degraded"
    ELSE IF veg_index < 50 \/ soil_moisture < 35 THEN "At Risk"
    ELSE "Healthy"

get_suggestion(status) ==
    IF status = "Degraded"
    THEN "Recommend: Reforestation or irrigation to restore soil health."
    ELSE IF status = "At Risk"
    THEN "Recommend: Mulching, cover crops, or moderate irrigation."
    ELSE "Land is healthy. Maintain current practices."

\* pd.to_numeric(..., errors="coerce"): anything that is not a number is NaN.
to_numeric(x) == IF IsNum(x) THEN x ELSE NaN

\* Series.fillna(d): nulls become d.
fillna(x, d) == IF x.kind \in {"none", "nan"} THEN Num(d) ELSE x

NoScore == 0 - 1

\* The previous call: the values it classified and what it returned.
Remember ==
    [fn |-> fn, veg |-> out.veg, soil |-> out.soil, temp |-> out.temp,
     status |-> out.status, suggestion |-> out.suggestion,
     carbon_estimate |-> out.carbon_estimate, filled |-> out.filled]

\* Consecutive readings differ in at most one field: the readings that may
\* follow the current one, among those of the set S.
Cells ==
    {Num(x) : x \in VegValues \cup SoilValues \cup TempValues} \cup Missing

NextReadings(S) ==
    IF fn = "none" THEN S
    ELSE {r \in {[obs EXCEPT ![f] = x] : f \in DOMAIN obs, x \in Cells} :
            r \in S}

\* clean_data applied to one row fetched by app.py's fetch_data, a row that
\* has its latitude and longitude (the others are dropped unclassified).
CleanData(r) ==
    LET veg == fillna(to_numeric(r.vegetation_index), 50)
        soil == fillna(to_numeric(r.soil_moisture), 30)
        temp == fillna(to_numeric(r.temperature), 25)
        status == classify_land(veg.val, soil.val, temp.val)
    IN  /\ obs' = r
        /\ fn' = "clean_data"
        /\ out' = [status |-> status, suggestion |-> get_suggestion(status),
                   veg |-> veg, soil |-> soil, temp |-> temp,
                   sustainability_index |-> NoScore,
                   carbon_estimate |-> NoScore, filled |-> FALSE,
                   error |-> FALSE, inserted |-> FALSE]
        /\ prev' = Remember
        /\ UNCHANGED <<program, land_data>>

\* Submit of app.py's land_form.
LandFormSubmit(r, ok) ==
    LET status == classify_land(r.vegetation_index.val, r.soil_moisture.val,
                                r.temperature.val)
    IN  /\ obs' = r
        /\ fn' = "land_form"
        /\ out' = [status |-> status, suggestion |-> get_suggestion(status),
                   veg |-> r.vegetation_index, soil |-> r.soil_moisture,
                   temp |-> r.temperature,
                   sustainability_index |-> NoScore,
                   carbon_estimate |-> NoScore, filled |-> FALSE,
                   error |-> FALSE, inserted |-> ok]
        /\ prev' = Remember
        /\ land_data' = IF ok THEN land_data + 1 ELSE land_data
        /\ UNCHANGED program

(***************************************************************************)
(* backend/utils/carbon.py and backend/main.py                             *)
(***************************************************************************)
\* round(x, 2) of a non-negative score held in thousandths.
round2(x) == ((x + 5) \div 10) * 10

estimate_carbon_emission(soil_moisture, vegetation_index) ==
    LET status == IF soil_moisture < 20 THEN "Degraded"
                  ELSE IF soil_moisture < 35 THEN "At Risk"
                  ELSE "Healthy"
        suggestion ==
            IF soil_moisture < 20 THEN "Reforestation or irrigation needed."
            ELSE IF soil_moisture < 35
            THEN "Mulching, cover crops, or moderate irrigation."
            ELSE "Land is healthy. Maintain current practices."
    IN  [status |-> status, suggestion |-> suggestion,
         estimated_emission |-> round2((100 - vegetation_index) * 100)]

\* (soil_moisture * 0.4 + vegetation_index * 0.6) * 100, rounded.
sustainability_index(soil_moisture, vegetation_index) ==
    round2((soil_moisture * 400 + vegetation_index * 6) * 100)

\* POST /add with the client configured and the estimator imported.
add_data(r, ok) ==
    LET result == estimate_carbon_emission(r.soil_moisture.val,
                                           r.vegetation_index.val)
    IN  /\ obs' = r
        /\ fn' = "add_data"
        /\ out' = [status |-> result.status,
                   suggestion |-> result.suggestion,
                   veg |-> r.vegetation_index, soil |-> r.soil_moisture,
                   temp |-> r.temperature,
                   sustainability_index |->
                       sustainability_index(r.soil_moisture.val,
                                            r.vegetation_index.val),
                   carbon_estimate |-> result.estimated_emission,
                   filled |-> FALSE, error |-> FALSE, inserted |-> ok]
        /\ prev' = Remember
        /\ land_data' = IF ok THEN land_data + 1 ELSE land_data
        /\ UNCHANGED program

(***************************************************************************)
(* dashboard.py                                                            *)
(***************************************************************************)
\* x or 0
or_zero(x) ==
    IF x.kind = "none" \/ (IsNum(x) /\ x.val = 0) THEN Num(0) ELSE x

\* Comparisons with a NaN are false.
Ge(x, c) == IsNum(x) /\ x.val >= c
Lt(x, c) == IsNum(x) /\ x.val < c

classify_status(soil, veg) ==
    IF Ge(soil, 40) /\ Ge(veg, 60)
    THEN <<"Healthy", "Maintain current practices">>
    ELSE IF (Ge(soil, 20) /\ Lt(soil, 40)) \/ (Ge(veg, 40) /\ Lt(veg, 60))
    THEN <<"At Risk", "Use cover crops or moderate irrigation">>
    ELSE <<"Degraded", "Reforestation or intensive irrigation">>

\* str.title() on the labels classify_status returns.
title(s) ==
    CASE s = "Healthy" -> "Healthy"
      [] s = "At Risk" -> "At Risk"
      [] s = "Degraded" -> "Degraded"

clip(x, lower, upper) ==
    IF x < lower THEN lower ELSE IF x > upper THEN upper ELSE x

\* One row through dashboard.py's fetch_data.  scored: the row carries the
\* sustainability_index and carbon_estimate that POST /add stored.
DashboardFetch(r, scored) ==
    LET soil == or_zero(r.soil_moisture)
        veg == or_zero(r.vegetation_index)
        soil0 == fillna(r.soil_moisture, 0).val
        veg0 == fillna(r.vegetation_index, 0).val
        tier == classify_status(soil, veg)
        failed == r.soil_moisture = Text \/ r.vegetation_index = Text
    IN  /\ obs' = r
        /\ fn' = "fetch_data"
        /\ out' =
            IF failed
            THEN [status |-> "", suggestion |-> "", veg |-> veg,
                  soil |-> soil, temp |-> r.temperature,
                  sustainability_index |-> NoScore,
                  carbon_estimate |-> NoScore, filled |-> FALSE,
                  error |-> TRUE, inserted |-> FALSE]
            ELSE [status |-> title(tier[1]), suggestion |-> tier[2],
                  veg |-> veg, soil |-> soil, temp |-> r.temperature,
                  sustainability_index |->
                      IF scored THEN sustainability_index(soil0, veg0)
                      ELSE clip(500 * soil0 + 5 * veg0, 0, 100000),
                  carbon_estimate |->
                      IF scored
                      THEN estimate_carbon_emission(soil0, veg0).estimated_emission
                      ELSE veg0 * 10000,
                  filled |-> ~scored, error |-> FALSE, inserted |-> FALSE]
        /\ prev' = Remember
        /\ UNCHANGED <<program, land_data>>

\* Submit of dashboard.py's add_form; ok: the POST answered 200 or 201.
AddFormSubmit(r, ok) ==
    LET tier == classify_status(or_zero(r.soil_moisture),
                                or_zero(r.vegetation_index))
    IN  /\ obs' = r
        /\ fn' = "add_form"
        /\ out' = [status |-> tier[1], suggestion |-> tier[2],
                   veg |-> or_zero(r.vegetation_index),
                   soil |-> or_zero(r.soil_moisture),
                   temp |-> r.temperature,
                   sustainability_index |-> NoScore,
                   carbon_estimate |-> NoScore, filled |-> FALSE,
                   error |-> FALSE, inserted |-> ok]
        /\ prev' = Remember
        /\ land_data' = IF ok THEN land_data + 1 ELSE land_data
        /\ UNCHANGED program

\* The three programs of the repository; a behaviour is a run of one of them.
Programs == {"app.py", "dashboard.py", "backend/main.py"}

\* No entry in the st.cache_data cache of fetch_data.
NoCache == [stored |-> FALSE, rows |-> 0]

NoEvent ==
    [op |-> "none", ok |-> FALSE, read |-> FALSE, rows |-> 0, inserts |-> 0,
     key |-> "", text |-> ""]

\* Nothing requested yet, the cache empty.
InitService ==
    /\ cache = NoCache
    /\ event = NoEvent
    /\ last = [op |-> "none", ok |-> FALSE, cache |-> NoCache, rows |-> 0]

Init ==
    /\ program \in Programs
    /\ supabase = TRUE
    /\ estimator = TRUE
    /\ InitService
    /\ obs = [vegetation_index |-> None, soil_moisture |-> None,
              temperature |-> None]
    /\ fn = "none"
    /\ out = [status |-> "", suggestion |-> "", veg |-> None, soil |-> None,
              temp |-> None, sustainability_index |-> NoScore,
              carbon_estimate |-> NoScore, filled |-> FALSE,
              error |-> FALSE, inserted |-> FALSE]
    /\ prev = [fn |-> "none", veg |-> None, soil |-> None, temp |-> None,
               status |-> "", suggestion |-> "",
               carbon_estimate |-> NoScore, filled |-> FALSE]
    /\ land_data = 0

AppFetch ==
    /\ program = "app.py"
    /\ \E r \in NextReadings(StoredRows) : CleanData(r)
    /\ UNCHANGED service

AppSubmit ==
    /\ program = "app.py"
    /\ \E r \in NextReadings(FormReadings), ok \in BOOLEAN :
           /\ ok => land_data < MaxStore
           /\ LandFormSubmit(r, ok)
    /\ UNCHANGED service

ApiAdd ==
    /\ program = "backend/main.py"
    /\ \E r \in NextReadings(FormReadings), ok \in BOOLEAN :
           /\ ok => land_data < MaxStore
           /\ add_data(r, ok)
    /\ UNCHANGED service

DashFetch ==
    /\ program = "dashboard.py"
    /\ \E r \in NextReadings(StoredRows), scored \in BOOLEAN :
           /\ scored => IsNum(r.soil_moisture) /\ IsNum(r.vegetation_index)
           /\ DashboardFetch(r, scored)
    /\ UNCHANGED service

DashSubmit ==
    /\ program = "dashboard.py"
    /\ \E r \in NextReadings(FormReadings), ok \in BOOLEAN :
           /\ ok => land_data < MaxStore
           /\ AddFormSubmit(r, ok)
    /\ UNCHANGED service

Next == AppFetch \/ AppSubmit \/ ApiAdd \/ DashFetch \/ DashSubmit

Spec == Init /\ [][Next]_vars

(***************************************************************************)
(* Requests, inserts and the fetch cache.  The readings themselves are     *)
(* left to the actions above; here a behaviour is the sequence of          *)
(* requests one program serves, land_data counting the rows stored.        *)
(***************************************************************************)
\* Largest number of rows land_data grows to under SpecTraffic.
MaxRows == 2

\* What the previous request left behind.
Snapshot ==
    [op |-> event.op, ok |-> event.ok, cache |-> cache, rows |-> land_data]

\* Ways the try block of add_data ends.
AddOutcomes == {"returns", "compute_raises", "insert_raises"}

\* add_data with every exception escaping: the handler without its except.
handle_add_no_except(configured, available, outcome) ==
    IF ~configured
    THEN [key |-> "detail", text |-> "Supabase client not configured",
          inserts |-> 0, stored |-> FALSE]
    ELSE IF ~available
    THEN [key |-> "detail",
          text |-> "Carbon estimation function not available",
          inserts |-> 0, stored |-> FALSE]
    ELSE IF outcome = "compute_raises"
    THEN [key |-> "raised", text |-> "", inserts |-> 0, stored |-> FALSE]
    ELSE IF outcome = "insert_raises"
    THEN [key |-> "raised", text |-> "", inserts |-> 1, stored |-> FALSE]
    ELSE [key |-> "message", text |-> "Record added successfully",
          inserts |-> 1, stored |-> TRUE]

\* The control path of add_data: what it answers, how many times it calls
\* insert, and whether the row is stored.
handle_add(configured, available, outcome) ==
    IF ~configured
    THEN [key |-> "detail", text |-> "Supabase client not configured",
          inserts |-> 0, stored |-> FALSE]
    ELSE IF ~available
    THEN [key |-> "detail",
          text |-> "Carbon estimation function not available",
          inserts |-> 0, stored |-> FALSE]
    ELSE IF outcome = "compute_raises"
    THEN [key |-> "detail", text |-> "str(e)", inserts |-> 0,
          stored |-> FALSE]
    ELSE IF outcome = "insert_raises"
    THEN [key |-> "detail", text |-> "str(e)", inserts |-> 1,
          stored |-> FALSE]
    ELSE [key |-> "message", text |-> "Record added successfully",
          inserts |-> 1, stored |-> TRUE]

\* POST /add.
PostAdd ==
    /\ program = "backend/main.py"
    /\ \E outcome \in AddOutcomes :
         LET h == handle_add(supabase, estimator, outcome)
         IN  /\ h.stored => land_data < MaxRows
             /\ event' = [op |-> "add", ok |-> h.stored, read |-> FALSE,
                          rows |-> 0, inserts |-> h.inserts,
                          key |-> h.key, text |-> h.text]
             /\ land_data' = IF h.stored THEN land_data + 1 ELSE land_data
    /\ last' = Snapshot
    /\ UNCHANGED <<program, supabase, estimator, cache>>
    /\ UNCHANGED reading

\* Ways an insert from a form ends: app.py's execute() returns or raises;
\* dashboard.py's POST answers with a status code or raises.
SubmitOutcomes ==
    IF program = "app.py" THEN {"returns", "raises"}
    ELSE {"200", "201", "500", "raises"}

\* The form reports success.
succeeded(outcome) == outcome \in {"returns", "200", "201"}

\* The cache after a submit, without the st.cache_data.clear() call.
after_submit_no_clear(c, success) == c

\* The cache after a submit: cleared next to st.success, else left alone.
after_submit(c, success) == IF success THEN NoCache ELSE c

\* fetch_data behind st.cache_data: a cached result is served as it is;
\* otherwise the store is read, a failed read gives an empty frame, and
\* the result is cached.
FetchData ==
    /\ program # "backend/main.py"
    /\ \E read_ok \in BOOLEAN :
         LET rows == IF cache.stored THEN cache.rows
                     ELSE IF read_ok THEN land_data ELSE 0
         IN  /\ cache.stored => read_ok
             /\ event' = [op |-> "fetch", ok |-> read_ok,
                          read |-> ~cache.stored, rows |-> rows,
                          inserts |-> 0, key |-> "", text |-> ""]
             /\ cache' = [stored |-> TRUE, rows |-> rows]
    /\ last' = Snapshot
    /\ UNCHANGED <<program, supabase, estimator, land_data>>
    /\ UNCHANGED reading

\* Submit of land_form (app.py) and of add_form (dashboard.py).
SubmitForm ==
    /\ program # "backend/main.py"
    /\ \E outcome \in SubmitOutcomes :
         /\ succeeded(outcome) => land_data < MaxRows
         /\ event' = [op |-> "submit", ok |-> succeeded(outcome),
                      read |-> FALSE, rows |-> 0, inserts |-> 1,
                      key |-> "", text |-> outcome]
         /\ land_data' = IF succeeded(outcome) THEN land_data + 1
                         ELSE land_data
         /\ cache' = after_submit(cache, succeeded(outcome))
    /\ last' = Snapshot
    /\ UNCHANGED <<program, supabase, estimator>>
    /\ UNCHANGED reading

\* The Refresh Data button of dashboard.py.
Refresh ==
    /\ program = "dashboard.py"
    /\ event' = [NoEvent EXCEPT !.op = "refresh"]
    /\ cache' = NoCache
    /\ last' = Snapshot
    /\ UNCHANGED <<program, supabase, estimator, land_data>>
    /\ UNCHANGED reading

\* The ttl of the cached result runs out.
Expire ==
    /\ program # "backend/main.py"
    /\ cache.stored
    /\ event' = [NoEvent EXCEPT !.op = "expire"]
    /\ cache' = NoCache
    /\ last' = Snapshot
    /\ UNCHANGED <<program, supabase, estimator, land_data>>
    /\ UNCHANGED reading

\* Another program stores a row in land_data.
OtherInsert ==
    /\ program # "backend/main.py"
    /\ land_data < MaxRows
    /\ event' = [NoEvent EXCEPT !.op = "other"]
    /\ land_data' = land_data + 1
    /\ last' = Snapshot
    /\ UNCHANGED <<program, supabase, estimator, cache>>
    /\ UNCHANGED reading

\* A dashboard has its client, or does not start (app.py:32,
\* dashboard.py:17-19); the API starts without client or estimator.
InitTraffic ==
    /\ program \in Programs
    /\ supabase \in BOOLEAN
    /\ estimator \in BOOLEAN
    /\ program # "backend/main.py" => supabase /\ estimator
    /\ InitService
    /\ obs = [vegetation_index |-> None, soil_moisture |-> None,
              temperature |-> None]
    /\ fn = "none"
    /\ out = [status |-> "", suggestion |-> "", veg |-> None, soil |-> None,
              temp |-> None, sustainability_index |-> NoScore,
              carbon_estimate |-> NoScore, filled |-> FALSE,
              error |-> FALSE, inserted |-> FALSE]
    /\ prev = [fn |-> "none", veg |-> None, soil |-> None, temp |-> None,
               status |-> "", suggestion |-> "",
               carbon_estimate |-> NoScore, filled |-> FALSE]
    /\ land_data = 0

NextTraffic ==
    PostAdd \/ FetchData \/ SubmitForm \/ Refresh \/ Expire \/ OtherInsert

SpecTraffic == InitTraffic /\ [][NextTraffic]_vars

(***************************************************************************)
(* Properties                                                              *)
(***************************************************************************)
Severity(status) ==
    CASE status = "Healthy" -> 0
      [] status = "At Risk" -> 1
      [] status = "Degraded" -> 2

\* Calls that classify with classify_land, and with classify_status.
LandCalls == {"clean_data", "land_form"}
StatusCalls == {"fetch_data", "add_form"}

\* C1: every classify_land call returns exactly one tier, the one of the
\* most-severe-first table: Degraded iff veg < 0.3 or soil < 20 or temp > 35;
\* otherwise At Risk iff veg < 0.5 or soil < 35; otherwise Healthy.
ClassifyLandTable ==
    fn \in LandCalls =>
        LET degraded == \/ out.veg.val < 30
                        \/ out.soil.val < 20
                        \/ out.temp.val > 35
            at_risk == out.veg.val < 50 \/ out.soil.val < 35
        IN  /\ out.status \in {"Degraded", "At Risk", "Healthy"}
            /\ (out.status = "Degraded") <=> degraded
            /\ (out.status = "At Risk") <=> (~degraded /\ at_risk)
            /\ (out.status = "Healthy") <=> (~degraded /\ ~at_risk)

ClassifyLandTableWitness ==
    /\ fn = "land_form" /\ prev.fn = "land_form"
    /\ obs.vegetation_index = Num(100) /\ obs.soil_moisture = Num(100)
    /\ out.status = "Healthy" /\ prev.status = "Degraded"

\* C2: no classifier returns Healthy for a reading that matches a
\* degradation condition: veg < 0.3 or soil < 20 or, where the temperature
\* is an input of the classifier, temp > 35.
NoHealthyWhenDegraded ==
    (fn # "none" /\ out.status = "Healthy") =>
        ~ \/ IsNum(obs.vegetation_index) /\ obs.vegetation_index.val < 30
          \/ IsNum(obs.soil_moisture) /\ obs.soil_moisture.val < 20
          \/ /\ fn \in LandCalls
             /\ IsNum(obs.temperature) /\ obs.temperature.val > 35

\* C3: classify_land is monotonic: a reading with no higher vegetation_index,
\* no higher soil_moisture and no lower temperature than the previous one is
\* never given a less severe tier; and no temperature gives a better tier
\* than the default temperature 25 does for the same other inputs.
ClassifyLandMonotonic ==
    (fn \in LandCalls /\ prev.fn \in LandCalls) =>
        /\ ( /\ out.veg.val <= prev.veg.val
             /\ out.soil.val <= prev.soil.val
             /\ out.temp.val >= prev.temp.val )
               => Severity(out.status) >= Severity(prev.status)
        /\ ( /\ prev.temp.val = 25
             /\ out.veg = prev.veg /\ out.soil = prev.soil )
               => Severity(out.status) >= Severity(prev.status)

ClassifyLandMonotonicWitness ==
    /\ fn \in LandCalls /\ prev.fn = "clean_data"
    /\ prev.temp.val = 25 /\ out.temp.val = 10
    /\ out.veg = prev.veg /\ out.soil = prev.soil
    /\ out.status = "At Risk" /\ prev.status = "At Risk"

\* C4: classify_status is monotonic: for a fixed vegetation a lower
\* soil_moisture, and for a fixed soil_moisture a lower vegetation, is never
\* given a less severe tier.
ClassifyStatusMonotonic ==
    ( /\ fn \in StatusCalls /\ prev.fn \in StatusCalls
      /\ ~out.error /\ prev.status # ""
      /\ IsNum(out.veg) /\ IsNum(out.soil)
      /\ IsNum(prev.veg) /\ IsNum(prev.soil)
      /\ out.veg.val <= prev.veg.val
      /\ out.soil.val <= prev.soil.val )
        => Severity(out.status) >= Severity(prev.status)

\* C5 as stated: soil_moisture 20, vegetation_index 0.5 and the default
\* temperature 25 classify as Degraded.
Soil20Veg05Degraded ==
    ( /\ fn \in LandCalls
      /\ out.soil.val = 20 /\ out.veg.val = 50 /\ out.temp.val = 25 )
        => out.status = "Degraded"

\* C5 amended: soil_moisture 20, vegetation_index 0.5 and the default
\* temperature 25 classify as At Risk.
Soil20Veg05AtRisk ==
    ( /\ fn \in LandCalls
      /\ out.soil.val = 20 /\ out.veg.val = 50 /\ out.temp.val = 25 )
        => out.status = "At Risk"

Soil20Veg05Witness ==
    /\ fn = "clean_data"
    /\ obs.soil_moisture = Num(20) /\ obs.vegetation_index = Num(50)
    /\ obs.temperature = None
    /\ out.temp = Num(25) /\ out.status = "At Risk"

\* C6: the cutoffs of classify_land are strict: a value on a cutoff belongs
\* to the better tier when no other input asks for a worse one; soil 35 with
\* veg 0.3 is At Risk and soil 50 with veg 0.6 is Healthy (temperature 25).
StrictCutoffs ==
    fn \in LandCalls =>
        LET v == out.veg.val
            s == out.soil.val
            t == out.temp.val
        IN  /\ (s = 20 /\ v >= 30 /\ t <= 35) => out.status # "Degraded"
            /\ (v = 30 /\ s >= 20 /\ t <= 35) => out.status # "Degraded"
            /\ (t = 35 /\ v >= 30 /\ s >= 20) => out.status # "Degraded"
            /\ (s = 35 /\ v >= 50 /\ t <= 35) => out.status = "Healthy"
            /\ (v = 50 /\ s >= 35 /\ t <= 35) => out.status = "Healthy"
            /\ (s = 35 /\ v = 30 /\ t = 25) => out.status = "At Risk"
            /\ (s = 50 /\ v = 60 /\ t = 25) => out.status = "Healthy"

StrictCutoffsWitness ==
    /\ fn = "land_form"
    /\ out.soil = Num(35) /\ out.veg = Num(50) /\ out.temp = Num(35)
    /\ out.status = "Healthy"

\* C7: get_suggestion returns a non-empty text for every tier classify_land
\* produces, the same text for the same tier, different texts for different
\* tiers: the reforestation/irrigation text for Degraded, the
\* mulching/cover-crop text for At Risk, the maintenance text for Healthy.
SuggestionLookup ==
    fn \in LandCalls =>
        /\ out.suggestion # ""
        /\ out.status = "Degraded" => out.suggestion =
             "Recommend: Reforestation or irrigation to restore soil health."
        /\ out.status = "At Risk" => out.suggestion =
             "Recommend: Mulching, cover crops, or moderate irrigation."
        /\ out.status = "Healthy" => out.suggestion =
             "Land is healthy. Maintain current practices."
        /\ prev.fn \in LandCalls =>
             (out.status = prev.status) <=> (out.suggestion = prev.suggestion)

SuggestionLookupWitness ==
    /\ fn \in LandCalls /\ prev.fn \in LandCalls
    /\ prev.status = "Healthy" /\ out.status = "At Risk"
    /\ out.suggestion # prev.suggestion

\* C8: the sustainability_index POST /add computes lies in [0,100] and is
\* soil_moisture * 0.4 + (vegetation_index as a percentage) * 0.6.
SustainabilityBlend ==
    fn = "add_data" =>
        /\ out.sustainability_index >= 0
        /\ out.sustainability_index <= 100000
        /\ out.sustainability_index =
             400 * obs.soil_moisture.val + 600 * obs.vegetation_index.val

\* C9: the carbon estimate is (1 - vegetation_index) * K for a fixed K, in
\* estimate_carbon_emission and in the dashboard's fill-in alike, so a
\* reading with no lower vegetation_index has no higher estimate.
CarbonScales == {10, 1000}

CarbonInverse ==
    ( /\ fn = "add_data" \/ (fn = "fetch_data" /\ out.filled)
      /\ IsNum(obs.vegetation_index) )
        => /\ \E K \in CarbonScales :
                out.carbon_estimate =
                    (100 - obs.vegetation_index.val) * K * 10
           /\ ( /\ prev.fn = fn /\ prev.filled = out.filled
                /\ IsNum(prev.veg) /\ IsNum(out.veg)
                /\ prev.veg.val <= out.veg.val )
                  => prev.carbon_estimate >= out.carbon_estimate

\* C10: whenever a stored row is classified, by app.py's clean_data or by
\* dashboard.py's classify_status, every missing or non-numeric field has
\* been replaced by its default (vegetation_index 0.5, soil_moisture 30,
\* temperature 25) and the classification does not fail.
DefaultsSubstituted ==
    fn \in {"clean_data", "fetch_data"} =>
        /\ ~out.error
        /\ ~IsNum(obs.vegetation_index) => out.veg = Num(50)
        /\ ~IsNum(obs.soil_moisture) => out.soil = Num(30)
        /\ (fn = "clean_data" /\ ~IsNum(obs.temperature))
             => out.temp = Num(25)

\* C11: a POST /add request calls insert at most once and never raises.
\* Without the client or without the estimator it answers {"detail": ...}
\* and calls no insert; when computing the record or the insert throws it
\* answers {"detail": ...}, no success; it answers the success message only
\* when the insert call returned, the row stored.
AddAtMostOneInsert ==
    event.op = "add" =>
        /\ event.inserts <= 1
        /\ event.key \in {"message", "detail"}
        /\ (~supabase \/ ~estimator) =>
             /\ event.key = "detail"
             /\ event.inserts = 0
             /\ land_data = last.rows
        /\ ~event.ok => (event.key = "detail" /\ land_data = last.rows)
        /\ event.key = "message" =>
             /\ event.ok
             /\ event.inserts = 1
             /\ land_data = last.rows + 1

AddAtMostOneInsertWitness ==
    /\ event.op = "add" /\ event.key = "detail" /\ event.inserts = 1
    /\ last.op = "add" /\ last.ok
    /\ land_data = 1

\* C12: in both dashboards a successful insert from the form clears the
\* fetch cache, so the next fetch_data reads the store; a failed insert
\* (an exception, or a status other than 200 and 201) leaves the cache as
\* it was, so the next fetch_data serves what was cached; and a fetch
\* clears nothing.
CacheClearedOnInsert ==
    program # "backend/main.py" =>
        /\ (event.op = "submit" /\ event.ok) =>
             /\ cache = NoCache
             /\ land_data = last.rows + 1
        /\ (event.op = "submit" /\ ~event.ok) =>
             /\ cache = last.cache
             /\ land_data = last.rows
        /\ event.op = "fetch" => cache.stored
        /\ (event.op = "fetch" /\ last.op = "submit" /\ last.ok) =>
             /\ event.read
             /\ event.ok => event.rows = land_data
        /\ ( /\ event.op = "fetch" /\ last.op = "submit" /\ ~last.ok
             /\ last.cache.stored ) =>
             /\ ~event.read
             /\ event.rows = last.cache.rows

CacheClearedOnInsertWitness ==
    /\ program = "dashboard.py"
    /\ event.op = "fetch" /\ last.op = "submit" /\ last.ok
    /\ event.read /\ event.ok
    /\ event.rows = 2 /\ land_data = 2

====
